---- MODULE Spec2Model ----
(***************************************************************************)
(* ButtonStim (src/src/visual/ButtonStim.js): a TextBox that owns a Mouse  *)
(* listener and keeps a click history (wasClicked, timesOn, timesOff).     *)
(*                                                                         *)
(* The TextBox base class, the Mouse listener and the per-frame driver     *)
(* that performs edge detection are not part of ButtonStim.js; they are    *)
(* modelled from the specification and marked so where they are defined.   *)
(***************************************************************************)
EXTENDS Integers, Sequences, FiniteSets

\* ------------------------------------------------------------------ bounds
\* longest label text, in characters
MaxLen == 1
\* last clock value a frame may be stamped with
MaxTime == 4
\* largest clock advance between two consecutive frames
MaxDelta == 2

\* ------------------------------------------------------------- JS values
LF == "\n"
Chars == {"a", LF}

Strings == UNION {[1..k -> Chars] : k \in 0..MaxLen}

\* A JavaScript value as far as the constructor inspects it: its typeof and,
\* for a string, its characters.
JSUndefined == [type |-> "undefined", val |-> <<>>]
JSNumber == [type |-> "number", val |-> <<>>]
JSString(s) == [type |-> "string", val |-> s]
\* an argument of a call that has returned
JSGone == [type |-> "gone", val |-> <<>>]

TextValues == {JSUndefined, JSNumber} \cup {JSString(s) : s \in Strings}

\* the caller's multiline option: absent, true or false
MultilineOptions == {"undefined", "true", "false"}

\* the caller's alignment option: absent, or a value other than "center"
AlignmentOptions == {"undefined", "left"}

typeof(v) == v.type

\* String.prototype.includes for a one-character needle
includes(s, c) == \E i \in 1..Len(s) : s[i] = c

VARIABLES
    text,           \* TextBox: the rendered text
    placeholder,    \* TextBox: the placeholder text
    alignment,      \* TextBox: the text alignment
    multiline,      \* this._multiline
    listenerObj,    \* this.listener: the Mouse created at line 122
    wasClicked,     \* attribute wasClicked
    timesOn,        \* attribute timesOn
    timesOff,       \* attribute timesOff
    buttonsPressed, \* listener: which of the three pointer buttons are down
    pointerOver,    \* listener: the pointer is inside this stimulus
    pressedState,   \* frame driver: IDLE (FALSE) or PRESSED (TRUE)
    now,            \* frame driver: clock value of the last frame
    inFrame,        \* a frame callback is running
    physChanged,    \* the pointer changed physically during this callback
    textOpt,        \* the text option of the constructor call just made
    multilineOpt,   \* the multiline option of the constructor call just made
    alignmentOpt,   \* the alignment option of the constructor call just made
    op,             \* the last operation of the control, of its constructor
                    \* or of the frame driver; "other" after anything else
    ret,            \* the value the last getter returned
    thrown,         \* the error the last operation ended with, if any
    labelLog,       \* what each TextBox.reset() of the last operation saw
    consecResets,   \* reset() calls since the listener last changed
    resetInPressed, \* the latest reset() was called in the PRESSED state
    pressEdges,     \* press transitions observed since the latest reset()
    releaseEdges    \* release transitions observed since the latest reset()

vars == <<text, placeholder, alignment, multiline, listenerObj, wasClicked,
          timesOn, timesOff, buttonsPressed, pointerOver, pressedState, now,
          inFrame, physChanged, textOpt, multilineOpt, alignmentOpt, op, ret,
          thrown,
          labelLog, consecResets, resetInPressed, pressEdges, releaseEdges>>

label == <<text, placeholder, alignment, multiline>>
history == <<wasClicked, timesOn, timesOff>>
listener == <<buttonsPressed, pointerOver>>
driver == <<pressedState, now>>
frame == <<inFrame, physChanged>>
edges == <<pressEdges, releaseEdges>>

\* --------------------------------------------------------- construction
\* TextBox constructor: keeps text, placeholder and alignment as given; the
\* multiline attribute defaults to false when the option is absent.
TextBox(options) ==
    [text |-> options.text,
     placeholder |-> options.placeholder,
     alignment |-> options.alignment,
     multiline |-> (options.multiline = "true")]

\* mutant: the content-derived override of line 98 is missing
ButtonStim_noOverride(options) ==
    LET super == TextBox([text |-> options.text,
                          placeholder |-> options.text,
                          multiline |-> options.multiline,
                          alignment |-> "center"])
    IN  [text |-> super.text,
         placeholder |-> super.placeholder,
         alignment |-> super.alignment,
         multiline |-> super.multiline,
         listener |-> "Mouse",
         wasClicked |-> FALSE,
         timesOn |-> <<>>,
         timesOff |-> <<>>]

\* mutant: wasClicked starts out true
ButtonStim_wasClickedTrue(options) ==
    [ButtonStim_noOverride(options) EXCEPT
        !.multiline = typeof(options.text) = "string"
                        /\ includes(options.text.val, LF),
        !.wasClicked = TRUE]

\* mutant: the listener of line 122 is never created
ButtonStim_noListener(options) ==
    [ButtonStim_noOverride(options) EXCEPT
        !.multiline = typeof(options.text) = "string"
                        /\ includes(options.text.val, LF),
        !.listener = "undefined"]

\* mutant: the caller's alignment is forwarded to the TextBox
ButtonStim_callerAlignment(options) ==
    [ButtonStim_noOverride(options) EXCEPT
        !.multiline = typeof(options.text) = "string"
                        /\ includes(options.text.val, LF),
        !.alignment = IF options.alignment = "undefined"
                      THEN "center" ELSE options.alignment]

\* ButtonStim constructor, lines 42-144.  The destructuring of lines 43-66
\* has no alignment key: options.alignment is never read.
ButtonStim(options) ==
    LET super == TextBox([text |-> options.text,
                          placeholder |-> options.text,
                          multiline |-> options.multiline,
                          alignment |-> "center"])
    IN  [text |-> super.text,
         placeholder |-> super.placeholder,
         alignment |-> super.alignment,
         multiline |-> IF typeof(options.text) = "string"
                            /\ includes(options.text.val, LF)
                       THEN TRUE ELSE FALSE,
         listener |-> "Mouse",
         wasClicked |-> FALSE,
         timesOn |-> <<>>,
         timesOff |-> <<>>]

\* ------------------------------------------------------------- listener
\* Mouse.isPressedIn(this, wanted): the pointer is over the stimulus and the
\* buttons that are down are exactly the wanted ones.
isPressedIn(wanted) ==
    /\ pointerOver
    /\ \A i \in 1..3 : buttonsPressed[i] = (wanted[i] = 1)

\* ------------------------------------------------------------- getters
\* mutant: counts the releases instead of the presses
numClicks_timesOff == Len(timesOff)

\* get numClicks, lines 151-154
numClicks == Len(timesOn)

\* mutant: asks the listener for the secondary button
isClicked_secondary == isPressedIn(<<0, 1, 0>>)

\* mutant: a recorded press without its release counts as clicked too
isClicked_orUnmatched ==
    isPressedIn(<<1, 0, 0>>) \/ Len(timesOn) > Len(timesOff)

\* get isClicked, lines 161-164
isClicked == isPressedIn(<<1, 0, 0>>)

\* ------------------------------------------------------------------ Init
Init ==
    \E t \in TextValues, m \in MultilineOptions, a \in AlignmentOptions :
        LET this == ButtonStim([text |-> t, multiline |-> m,
                                alignment |-> a])
        IN  /\ text = this.text
            /\ placeholder = this.placeholder
            /\ alignment = this.alignment
            /\ multiline = this.multiline
            /\ listenerObj = this.listener
            /\ wasClicked = this.wasClicked
            /\ timesOn = this.timesOn
            /\ timesOff = this.timesOff
            /\ textOpt = t
            /\ multilineOpt = m
            /\ alignmentOpt = a
    /\ buttonsPressed \in [1..3 -> BOOLEAN]
    /\ pointerOver \in BOOLEAN
    /\ pressedState = FALSE
    /\ now = 0
    /\ inFrame = FALSE
    /\ physChanged = FALSE
    /\ op = "constructor"
    /\ ret = "none"
    /\ thrown = "none"
    /\ labelLog = <<>>
    /\ consecResets = 0
    /\ resetInPressed = FALSE
    /\ pressEdges = 0
    /\ releaseEdges = 0

\* The outcome of an operation: its name, the value it returned and the
\* error it threw.  The constructor's options are gone once another
\* operation has run.
Done(name, value, error) ==
    /\ op' = name
    /\ ret' = value
    /\ thrown' = error
    /\ textOpt' = JSGone
    /\ multilineOpt' = "gone"
    /\ alignmentOpt' = "gone"

\* ------------------------------------------------------- pointer events
\* Pointer events reach the listener between frame callbacks.
PointerDown ==
    \E b \in 1..3 :
        /\ ~inFrame
        /\ ~buttonsPressed[b]
        /\ buttonsPressed' = [buttonsPressed EXCEPT ![b] = TRUE]
        /\ Done("other", "none", "none")
        /\ labelLog' = <<>>
        /\ consecResets' = 0
        /\ UNCHANGED <<label, listenerObj, history, pointerOver, driver,
                       frame, resetInPressed, edges>>

PointerUp ==
    \E b \in 1..3 :
        /\ ~inFrame
        /\ buttonsPressed[b]
        /\ buttonsPressed' = [buttonsPressed EXCEPT ![b] = FALSE]
        /\ Done("other", "none", "none")
        /\ labelLog' = <<>>
        /\ consecResets' = 0
        /\ UNCHANGED <<label, listenerObj, history, pointerOver, driver,
                       frame, resetInPressed, edges>>

PointerMove ==
    /\ ~inFrame
    /\ pointerOver' = ~pointerOver
    /\ Done("other", "none", "none")
    /\ labelLog' = <<>>
    /\ consecResets' = 0
    /\ UNCHANGED <<label, listenerObj, history, buttonsPressed, driver,
                   frame, resetInPressed, edges>>

\* mutant: a physical change reaches the listener in the middle of a frame
PhysicalChange_delivered ==
    /\ inFrame
    /\ ~physChanged
    /\ physChanged' = TRUE
    /\ buttonsPressed' = [buttonsPressed EXCEPT ![1] = ~buttonsPressed[1]]
    /\ Done("other", "none", "none")
    /\ labelLog' = <<>>
    /\ UNCHANGED <<label, listenerObj, history, pointerOver, driver,
                   inFrame, consecResets, resetInPressed, edges>>

\* The pointer changes physically while a frame callback runs: the listener
\* is not sampled again before the callback ends.
PhysicalChange ==
    /\ inFrame
    /\ ~physChanged
    /\ physChanged' = TRUE
    /\ Done("other", "none", "none")
    /\ labelLog' = <<>>
    /\ UNCHANGED <<label, listenerObj, history, listener, driver, inFrame,
                   consecResets, resetInPressed, edges>>

\* The frame callback ends; the listener then takes up whatever the pointer
\* has physically become in the meantime.
EndFrame ==
    /\ inFrame
    /\ inFrame' = FALSE
    /\ physChanged' = FALSE
    /\ IF physChanged
       THEN /\ buttonsPressed' \in [1..3 -> BOOLEAN]
            /\ pointerOver' \in BOOLEAN
            /\ consecResets' = 0
       ELSE UNCHANGED <<listener, consecResets>>
    /\ Done("other", "none", "none")
    /\ labelLog' = <<>>
    /\ UNCHANGED <<label, listenerObj, history, driver, resetInPressed,
                   edges>>

\* ------------------------------------------------------- frame update
\* mutant: the clock may stand still between two frames
FrameUpdate_clockStalls ==
    \E d \in 0..MaxDelta :
        LET t == now + d
            cur == isClicked
        IN  /\ ~inFrame
            /\ t <= MaxTime
            /\ Len(timesOn) + Len(timesOff) < MaxTime
            /\ now' = t
            /\ pressedState' = cur
            /\ timesOn' = IF cur /\ ~pressedState
                          THEN Append(timesOn, t) ELSE timesOn
            /\ timesOff' = IF ~cur /\ pressedState
                           THEN Append(timesOff, t) ELSE timesOff
            /\ pressEdges' = pressEdges
                                + IF cur /\ ~pressedState THEN 1 ELSE 0
            /\ releaseEdges' = releaseEdges
                                + IF ~cur /\ pressedState THEN 1 ELSE 0
            /\ inFrame' = TRUE
            /\ physChanged' = FALSE
            /\ Done("frame", "none", "none")
            /\ labelLog' = <<>>
            /\ consecResets' = 0
            /\ UNCHANGED <<label, listenerObj, wasClicked, listener,
                           resetInPressed>>

\* mutant: a new timestamp is put in front of the older ones
FrameUpdate_unshift ==
    \E d \in 1..MaxDelta :
        LET t == now + d
            cur == isClicked
        IN  /\ ~inFrame
            /\ t <= MaxTime
            /\ now' = t
            /\ pressedState' = cur
            /\ timesOn' = IF cur /\ ~pressedState
                          THEN <<t>> \o timesOn ELSE timesOn
            /\ timesOff' = IF ~cur /\ pressedState
                           THEN <<t>> \o timesOff ELSE timesOff
            /\ pressEdges' = pressEdges
                                + IF cur /\ ~pressedState THEN 1 ELSE 0
            /\ releaseEdges' = releaseEdges
                                + IF ~cur /\ pressedState THEN 1 ELSE 0
            /\ inFrame' = TRUE
            /\ physChanged' = FALSE
            /\ Done("frame", "none", "none")
            /\ labelLog' = <<>>
            /\ consecResets' = 0
            /\ UNCHANGED <<label, listenerObj, wasClicked, listener,
                           resetInPressed>>

\* One frame of the driver, at a clock value later than the previous
\* frame's: sample isClicked once, append the frame's timestamp to timesOn
\* on IDLE -> PRESSED and to timesOff on PRESSED -> IDLE.  The update opens
\* the frame callback; the script's own queries and reset() calls of that
\* frame follow it, up to EndFrame.
FrameUpdate ==
    \E d \in 1..MaxDelta :
        LET t == now + d
            cur == isClicked
        IN  /\ ~inFrame
            /\ t <= MaxTime
            /\ now' = t
            /\ pressedState' = cur
            /\ timesOn' = IF cur /\ ~pressedState
                          THEN Append(timesOn, t) ELSE timesOn
            /\ timesOff' = IF ~cur /\ pressedState
                           THEN Append(timesOff, t) ELSE timesOff
            /\ pressEdges' = pressEdges
                                + IF cur /\ ~pressedState THEN 1 ELSE 0
            /\ releaseEdges' = releaseEdges
                                + IF ~cur /\ pressedState THEN 1 ELSE 0
            /\ inFrame' = TRUE
            /\ physChanged' = FALSE
            /\ Done("frame", "none", "none")
            /\ labelLog' = <<>>
            /\ consecResets' = 0
            /\ UNCHANGED <<label, listenerObj, wasClicked, listener,
                           resetInPressed>>

\* ------------------------------------------------------------- queries
\* mutant: the getter records a click while it answers
Get_isClicked_recording ==
    /\ Done("isClicked", isClicked, "none")
    /\ timesOn' = IF isClicked THEN Append(timesOn, now) ELSE timesOn
    /\ labelLog' = <<>>
    /\ UNCHANGED <<label, listenerObj, wasClicked, timesOff, listener,
                   driver, frame, consecResets, resetInPressed, edges>>

\* mutant: the getter remembers its answer in wasClicked
Get_isClicked_caching ==
    /\ Done("isClicked", isClicked, "none")
    /\ wasClicked' = isClicked
    /\ labelLog' = <<>>
    /\ UNCHANGED <<label, listenerObj, timesOn, timesOff, listener,
                   driver, frame, consecResets, resetInPressed, edges>>

\* a read of the isClicked property, lines 161-164; this.listener.isPressedIn
\* is a TypeError when there is no listener
Get_isClicked ==
    /\ IF listenerObj = "Mouse"
       THEN Done("isClicked", isClicked, "none")
       ELSE Done("isClicked", "none", "TypeError")
    /\ labelLog' = <<>>
    /\ UNCHANGED <<label, listenerObj, history, listener, driver, frame,
                   consecResets, resetInPressed, edges>>

\* a read of the numClicks property, lines 151-154
Get_numClicks ==
    /\ Done("numClicks", numClicks, "none")
    /\ labelLog' = <<>>
    /\ UNCHANGED <<label, listenerObj, history, listener, driver, frame,
                   consecResets, resetInPressed, edges>>

\* ------------------------------------------------------------ set text
\* the text with a line break added at its end
AddLineBreak(v) ==
    IF typeof(v) = "string"
    THEN JSString(Append(v.val, LF))
    ELSE JSString(<<LF>>)

\* the text without its line breaks
RemoveLineBreaks(v) ==
    IF typeof(v) = "string"
    THEN JSString(SelectSeq(v.val, LAMBDA c : c # LF))
    ELSE v

\* TextBox.setText(v), for a text v that has one line break more than the
\* current text or none at all: the label's text is replaced; nothing of
\* the ButtonStim is derived again.
SetText ==
    \E v \in {AddLineBreak(text), RemoveLineBreaks(text)} :
        /\ v # text
        /\ Len(v.val) <= MaxLen
        /\ text' = v
        /\ Done("other", "none", "none")
        /\ labelLog' = <<>>
        /\ UNCHANGED <<placeholder, alignment, multiline, listenerObj,
                       history, listener, driver, frame, consecResets,
                       resetInPressed, edges>>

\* ---------------------------------------------------------------- reset
\* TextBox.reset(), called on an object whose click attributes are seen:
\* leaves the click history and the listener alone
TextBox_reset(seen) ==
    /\ labelLog' = Append(<<>>, seen)
    /\ UNCHANGED <<label, listener>>

\* mutant: wasClicked is derived from the click count, after the clear
reset_fromCount ==
    /\ timesOn' = <<>>
    /\ timesOff' = <<>>
    /\ wasClicked' = (Len(timesOn) > 0)
    /\ thrown' = "none"
    /\ TextBox_reset([wasClicked |-> wasClicked', timesOn |-> timesOn',
                      timesOff |-> timesOff'])

\* mutant: only timesOn is cleared
reset_keepsTimesOff ==
    /\ wasClicked' = isClicked
    /\ timesOn' = <<>>
    /\ timesOff' = timesOff
    /\ thrown' = "none"
    /\ TextBox_reset([wasClicked |-> wasClicked', timesOn |-> timesOn',
                      timesOff |-> timesOff'])

\* mutant: the listener's button state is cleared together with the history
reset_clearsListener ==
    /\ wasClicked' = isClicked
    /\ timesOn' = <<>>
    /\ timesOff' = <<>>
    /\ thrown' = "none"
    /\ buttonsPressed' = [i \in 1..3 |-> FALSE]
    /\ labelLog' = <<[wasClicked |-> wasClicked', timesOn |-> timesOn',
                      timesOff |-> timesOff']>>
    /\ UNCHANGED <<label, pointerOver>>

\* mutant: super.reset() is called before the history is cleared
reset_superFirst ==
    /\ TextBox_reset([wasClicked |-> wasClicked, timesOn |-> timesOn,
                      timesOff |-> timesOff])
    /\ wasClicked' = isClicked
    /\ timesOn' = <<>>
    /\ timesOff' = <<>>
    /\ thrown' = "none"

\* mutant: reset() derives the multiline flag again, from the current text
reset_rederivesMultiline ==
    /\ wasClicked' = isClicked
    /\ timesOn' = <<>>
    /\ timesOff' = <<>>
    /\ thrown' = "none"
    /\ multiline' = (typeof(text) = "string" /\ includes(text.val, LF))
    /\ labelLog' = <<[wasClicked |-> wasClicked', timesOn |-> timesOn',
                      timesOff |-> timesOff']>>
    /\ UNCHANGED <<text, placeholder, alignment, listener>>

\* reset(), lines 171-179.  Line 173 throws before anything is assigned
\* when there is no listener to ask.
reset ==
    IF listenerObj = "Mouse"
    THEN /\ wasClicked' = isClicked
         /\ timesOn' = <<>>
         /\ timesOff' = <<>>
         /\ thrown' = "none"
         /\ TextBox_reset([wasClicked |-> wasClicked', timesOn |-> timesOn',
                           timesOff |-> timesOff'])
    ELSE /\ thrown' = "TypeError"
         /\ labelLog' = <<>>
         /\ UNCHANGED <<history, label, listener>>

\* consecutive reset() calls that are told apart
MaxConsec == 2

CallReset ==
    /\ reset
    /\ op' = "reset"
    /\ ret' = "none"
    /\ textOpt' = JSGone
    /\ multilineOpt' = "gone"
    /\ alignmentOpt' = "gone"
    /\ consecResets' = IF consecResets < MaxConsec
                       THEN consecResets + 1 ELSE consecResets
    /\ resetInPressed' = pressedState
    /\ pressEdges' = 0
    /\ releaseEdges' = 0
    /\ UNCHANGED <<listenerObj, driver, frame>>

Next ==
    \/ PointerDown
    \/ PointerUp
    \/ PointerMove
    \/ PhysicalChange
    \/ EndFrame
    \/ FrameUpdate
    \/ Get_isClicked
    \/ Get_numClicks
    \/ SetText
    \/ CallReset

Spec == Init /\ [][Next]_vars

\* ================================================================ claims
Increasing(seq) == \A i \in 1..(Len(seq) - 1) : seq[i] < seq[i + 1]

\* the listener reports a press of the primary button alone over the control
PrimaryOnlyOver ==
    /\ pointerOver
    /\ buttonsPressed[1]
    /\ ~buttonsPressed[2]
    /\ ~buttonsPressed[3]

\* the text is a string with at least one line break in it
HasLineBreak(v) ==
    v.type = "string" /\ \E i \in DOMAIN v.val : v.val[i] = LF

\* C1: in every reachable state numClicks is the length of timesOn, and a
\* read of numClicks returns that length.
C1_NumClicksIsLength ==
    /\ numClicks = Len(timesOn)
    /\ op = "numClicks" => ret = Len(timesOn)

\* C1 witness: numClicks was read as 1 while a press is recorded and its
\* release is not.
C1_Witness ==
    /\ op = "numClicks"
    /\ ret = 1
    /\ Len(timesOn) = 1
    /\ Len(timesOff) = 0

\* C2: every reset() step ends with timesOn and timesOff empty and with
\* wasClicked equal to the value isClicked had before the call.
C2_ResetPostcondition ==
    [][op' = "reset" =>
        /\ timesOn' = <<>>
        /\ timesOff' = <<>>
        /\ wasClicked' = isClicked]_vars

\* C2 witness: reset() was called on a pressed control whose press the
\* frame driver had recorded.
C2_Witness ==
    /\ op = "reset"
    /\ wasClicked
    /\ pressedState
    /\ timesOn = <<>>
    /\ timesOff = <<>>

\* C3 as stated: len(timesOff) <= len(timesOn) <= len(timesOff) + 1 in every
\* reachable state.
C3_Original ==
    /\ Len(timesOff) <= Len(timesOn)
    /\ Len(timesOn) <= Len(timesOff) + 1

\* C3 amended: the bound holds unless the latest reset() was called in the
\* PRESSED state; after such a reset the release of the forgotten press is
\* recorded alone, and len(timesOn) <= len(timesOff) <= len(timesOn) + 1.
C3_LengthsUnlessResetInPressed ==
    IF resetInPressed
    THEN /\ Len(timesOn) <= Len(timesOff)
         /\ Len(timesOff) <= Len(timesOn) + 1
    ELSE /\ Len(timesOff) <= Len(timesOn)
         /\ Len(timesOn) <= Len(timesOff) + 1

\* C3 witness: a release is recorded whose press reset() has cleared.
C3_Witness ==
    /\ resetInPressed
    /\ op = "frame"
    /\ timesOn = <<>>
    /\ Len(timesOff) = 1

\* C4: a reset() that follows a reset() with no pointer event and no frame
\* in between leaves wasClicked, timesOn and timesOff as the first left them.
C4_ResetIdempotent ==
    [][(consecResets >= 1 /\ op' = "reset") =>
        /\ wasClicked' = wasClicked
        /\ timesOn' = timesOn
        /\ timesOff' = timesOff]_vars

\* C4 witness: two reset() calls in a row on a pressed control.
C4_Witness ==
    /\ op = "reset"
    /\ consecResets = 2
    /\ wasClicked
    /\ timesOn = <<>>
    /\ timesOff = <<>>

\* C5: reset() changes neither what the listener reports nor the driver's
\* IDLE/PRESSED state; called on a pressed control it leaves wasClicked
\* true, the history empty and isClicked still true.
C5_ResetKeepsPressState ==
    [][op' = "reset" =>
        /\ isClicked' = isClicked
        /\ pressedState' = pressedState
        /\ isClicked =>
            /\ wasClicked'
            /\ timesOn' = <<>>
            /\ timesOff' = <<>>
            /\ isClicked']_vars

\* C5 witness: reset() was called while pressed, and the control is still
\* pressed.
C5_Witness ==
    /\ op = "reset"
    /\ isClicked
    /\ pressedState
    /\ wasClicked
    /\ timesOn = <<>>

\* C6: timesOn and timesOff are each strictly increasing.
C6_StrictlyIncreasing ==
    /\ Increasing(timesOn)
    /\ Increasing(timesOff)

\* C6 witness: two presses and two releases are recorded.
C6_Witness ==
    /\ Len(timesOn) = 2
    /\ Len(timesOff) = 2

\* C7: right after construction, multiline is on exactly when the text is a
\* string with a line break in it, whatever multiline option was given.
C7_MultilineFromText ==
    op = "constructor" => (multiline <=> HasLineBreak(text))

\* C7 witness: constructed with multiline = false and a text with a line
\* break; the control is multiline.
C7_Witness ==
    /\ op = "constructor"
    /\ multilineOpt = "false"
    /\ HasLineBreak(text)
    /\ multiline

\* C8: a read of isClicked or numClicks leaves timesOn, timesOff and
\* wasClicked as they were; timesOn and timesOff change only in a frame
\* update or a reset().
C8_QueriesHaveNoEffect ==
    [][/\ op' \in {"isClicked", "numClicks"} =>
            UNCHANGED <<timesOn, timesOff, wasClicked>>
       /\ (timesOn' # timesOn \/ timesOff' # timesOff) =>
            op' \in {"frame", "reset"}]_vars

\* C8 witness: isClicked was read as true on a control with a recorded
\* press.
C8_Witness ==
    /\ op = "isClicked"
    /\ ret = TRUE
    /\ Len(timesOn) = 1
    /\ timesOff = <<>>
    /\ ~wasClicked

\* C9 as stated: right after construction wasClicked is false, timesOn and
\* timesOff are empty, numClicks is 0 and isClicked is false.
C9_Original ==
    op = "constructor" =>
        /\ wasClicked = FALSE
        /\ timesOn = <<>>
        /\ timesOff = <<>>
        /\ numClicks = 0
        /\ isClicked = FALSE

\* C9 amended: right after construction wasClicked is false, timesOn and
\* timesOff are empty and numClicks is 0; isClicked is false unless the
\* listener already reports a press of the primary button alone over the
\* control.
C9_AfterConstruction ==
    op = "constructor" =>
        /\ wasClicked = FALSE
        /\ timesOn = <<>>
        /\ timesOff = <<>>
        /\ numClicks = 0
        /\ ~PrimaryOnlyOver => isClicked = FALSE

\* C9 witness: a control constructed under a pressed pointer.
C9_Witness ==
    /\ op = "constructor"
    /\ isClicked
    /\ numClicks = 0
    /\ ~wasClicked

\* C10: isClicked is true exactly when the primary button, and neither the
\* secondary nor the tertiary one, is down with the pointer over the
\* control; a read of isClicked returns that.
C10_PrimaryButtonOnly ==
    /\ isClicked <=> PrimaryOnlyOver
    /\ (~buttonsPressed[1] /\ (buttonsPressed[2] \/ buttonsPressed[3]))
            => ~isClicked
    /\ op = "isClicked" => (ret <=> PrimaryOnlyOver)

\* C10 witness: isClicked was read as false with only the secondary button
\* down over the control.
C10_Witness ==
    /\ op = "isClicked"
    /\ ret = FALSE
    /\ pointerOver
    /\ buttonsPressed[2]
    /\ ~buttonsPressed[1]
    /\ ~buttonsPressed[3]

NonDecreasing(seq) == \A i \in 1..(Len(seq) - 1) : seq[i] <= seq[i + 1]

\* C11: numClicks, isClicked and reset() can be performed in every reachable
\* state, and none of them ever ends with an error: numClicks returns a
\* natural number, isClicked a boolean, reset() returns normally.
C11_Total ==
    /\ thrown = "none"
    /\ op = "numClicks" => ret \in Nat
    /\ op = "isClicked" => ret \in BOOLEAN
    /\ ENABLED Get_numClicks
    /\ ENABLED Get_isClicked
    /\ ENABLED CallReset

\* C11 witness: reset() returned normally, called inside a frame on a
\* pressed control.
C11_Witness ==
    /\ op = "reset"
    /\ thrown = "none"
    /\ inFrame
    /\ resetInPressed
    /\ wasClicked

\* C12: right after construction the label's alignment is "center" whatever
\* alignment the caller supplied, and the supplied text is both the label's
\* text and its placeholder.
C12_CenterAndText ==
    op = "constructor" =>
        /\ alignment = "center"
        /\ text = textOpt
        /\ placeholder = textOpt

\* C12 witness: constructed with alignment "left" and a string as text.
C12_Witness ==
    /\ op = "constructor"
    /\ alignmentOpt = "left"
    /\ alignment = "center"
    /\ textOpt.type = "string"
    /\ Len(textOpt.val) > 0
    /\ placeholder = textOpt

\* C13: timesOn has one entry for each press transition observed since
\* construction or the latest reset(), and timesOff one for each release
\* transition, so numClicks is the number of those press transitions; right
\* after reset() both counts are 0 and wasClicked is what isClicked is.
C13_OneEntryPerEdge ==
    /\ Len(timesOn) = pressEdges
    /\ Len(timesOff) = releaseEdges
    /\ numClicks = pressEdges
    /\ op = "reset" =>
        /\ numClicks = 0
        /\ Len(timesOff) = 0
        /\ wasClicked <=> isClicked

\* C13 witness: one press and its release were observed, and numClicks was
\* read as 1.
C13_Witness ==
    /\ op = "numClicks"
    /\ ret = 1
    /\ pressEdges = 1
    /\ releaseEdges = 1
    /\ Len(timesOff) = 1
    /\ ~isClicked

\* C14: a reset() call invokes the label's reset exactly once, after
\* wasClicked has been sampled and timesOn and timesOff have been cleared:
\* the label's reset sees the new wasClicked and two empty sequences.
C14_LabelResetLast ==
    op = "reset" =>
        /\ Len(labelLog) = 1
        /\ labelLog[1].timesOn = <<>>
        /\ labelLog[1].timesOff = <<>>
        /\ labelLog[1].wasClicked = wasClicked

\* C14 witness: reset() was called in the PRESSED state, with a press in
\* timesOn, and the label's reset ran once.
C14_Witness ==
    /\ op = "reset"
    /\ resetInPressed
    /\ wasClicked
    /\ Len(labelLog) = 1
    /\ consecResets = 1

\* C15: timesOn and timesOff are each non-decreasing.
C15_NonDecreasing ==
    /\ NonDecreasing(timesOn)
    /\ NonDecreasing(timesOff)

\* C15 witness: after a reset() in the PRESSED state, two releases and the
\* press between them are recorded.
C15_Witness ==
    /\ resetInPressed
    /\ Len(timesOff) = 2
    /\ Len(timesOn) = 1

\* C16: while a frame callback runs the listener's answer does not change,
\* whatever the pointer physically does; every read of isClicked returns
\* that answer and reset() stores it in wasClicked.
C16_OneSamplePerFrame ==
    [][/\ (inFrame /\ inFrame') => (isClicked' = isClicked)
       /\ op' = "isClicked" => ret' = isClicked
       /\ op' = "reset" => wasClicked' = isClicked]_vars

\* C16 witness: isClicked was read as true in a frame during which the
\* pointer has physically changed.
C16_Witness ==
    /\ inFrame
    /\ physChanged
    /\ op = "isClicked"
    /\ ret = TRUE
    /\ pressedState

\* C17: no step changes the multiline flag: not a change of the text, not
\* reset(), not a press or release edge.
C17_MultilineFixed ==
    [][multiline' = multiline]_vars

\* C17 witness: the text has lost its line break and reset() was called;
\* the control is still multiline.
C17_Witness ==
    /\ op = "reset"
    /\ multiline
    /\ ~HasLineBreak(text)
    /\ HasLineBreak(placeholder)

\* C18: wasClicked changes only in a reset() step.
C18_WasClickedOnlyByReset ==
    [][wasClicked' # wasClicked => op' = "reset"]_vars

\* C18 witness: reset() while pressed, then the release is observed:
\* wasClicked is still true and isClicked is false.
C18_Witness ==
    /\ op = "frame"
    /\ wasClicked
    /\ ~isClicked
    /\ resetInPressed
    /\ timesOn = <<>>
    /\ Len(timesOff) = 1

\* C19: a step that leaves the listener's pointer state alone leaves
\* isClicked alone, whatever it does to timesOn, timesOff and wasClicked.
C19_IsClickedIgnoresHistory ==
    [][(buttonsPressed' = buttonsPressed /\ pointerOver' = pointerOver)
            => isClicked' = isClicked]_vars

\* C19 witness: isClicked is false although timesOn holds a press whose
\* release is not in timesOff yet.
C19_Witness ==
    /\ ~isClicked
    /\ ~resetInPressed
    /\ Len(timesOn) > Len(timesOff)
    /\ op = "isClicked"
    /\ ret = FALSE

====
